---------------------------- MODULE Spec2Model ----------------------------
(***************************************************************************)
(* Community detection genetic algorithm (src/src/ga_community_detection.py)*)
(*                                                                         *)
(* Conventions of the model:                                               *)
(*  - A Python list is a function with domain 0..n-1 (the code's own       *)
(*    indices); lists whose indices the code never uses (lists of          *)
(*    subsets, the adjacency list's items) are sequences.                  *)
(*  - A probability is a numerator over RateDen; random.random() is a      *)
(*    draw u in 0..RateDen-1 standing for u/RateDen, so                    *)
(*    `random.random() < rate` is u < rate.                                *)
(*  - community_score is a rational for an integer order r; the model      *)
(*    carries it multiplied by ScoreScale(n, r), an integer. A term of     *)
(*    the score that double precision rounds to 0.0 is 0 in the model.     *)
(*  - A raised Python exception is the string naming it.                   *)
(***************************************************************************)
EXTENDS Integers, Sequences, FiniteSets, TLC

VARIABLES
    adj_list,        \* community_detection's argument: the dict's items, in insertion order
    params,          \* community_detection's keyword arguments
    pc,              \* position inside community_detection
    nodes,           \* get_nodes(adj_list), line 352
    adj_matrix,      \* get_adj_matrix(adj_list), line 355
    population,      \* line 357 / 375
    new_population,  \* line 367 / 374
    residual,        \* line 366
    g,               \* the generation loop's variable, line 359
    i,               \* the function-level name `i`, bound by the loop of line 368 only
    p1,              \* line 369
    p2,              \* line 370
    parent1,         \* line 371
    parent2,         \* line 371
    child,           \* line 372: uniform_crossover's result, mutation's argument
    individual,      \* mutation's local `individual`, lines 307-317
    rand,            \* initialization's local `rand`, lines 102-104, while it is rejected
    mut,             \* mutation's local `mut`, line 311
    outcome,         \* community_detection's return value, or the exception it raised
    fn,              \* the function applied on its own (pure-function specifications)
    args,            \* its arguments
    ret,             \* its result
    data,            \* parameters.py: the global dict `data`, line 30
    threads,         \* parameters.py: main's list `threads`, each with its thread's position
    main             \* parameters.py: main's position and the report it wrote

vars == <<adj_list, params, pc, nodes, adj_matrix, population, new_population,
          residual, g, i, p1, p2, parent1, parent2, child, individual, rand, mut, outcome,
          fn, args, ret, data, threads, main>>

runVars == <<adj_list, params, pc, nodes, adj_matrix, population, new_population,
             residual, g, i, p1, p2, parent1, parent2, child, individual, rand, mut, outcome>>

callVars == <<fn, args, ret>>

driverVars == <<data, threads, main>>

----------------------------------------------------------------------------
(* Bounds of the model *)

\* probabilities are k/RateDen, k in 0..RateDen
RateDen == 2
\* roulette_selection's random.random() is k/ProbDen, k in 0..ProbDen-1
ProbDen == 4
\* population_count ranges over 2..MaxPopulation
MaxPopulation == 2
\* generation ranges over 0..MaxGeneration
MaxGeneration == 2
\* the order r ranges over 1..MaxR
MaxR == 2
\* genomes given to generate_subsets on its own have up to MaxN genes
MaxN == 5
\* parents given to uniform_crossover on its own have up to MaxM genes
MaxM == 2
\* graphs given to mutation on its own have up to MaxV vertices
MaxV == 3
\* pools given to roulette_selection on its own: up to MaxPool items of weight 0..MaxWeight
MaxPool == 2
MaxWeight == 2
\* runs on the graphs of two components hold at most TriSize genes in a population
TriSize == 10
\* the driver's grid holds MaxGrid population counts and MaxGrid mutation rates
MaxGrid == 2
\* the driver starts 1..MaxThreads threads
MaxThreads == 2
\* at the orders between MaxR and UnderflowR, genomes hold at most MaxMidN genes
MaxMidN == 4

----------------------------------------------------------------------------
(* Python lists as functions on 0..n-1 *)

Len0(l) == Cardinality(DOMAIN l)

Append0(l, x) == [k \in 0..Len0(l) |-> IF k < Len0(l) THEN l[k] ELSE x]

\* the function-level name `i` before the loop of line 368 has bound it
Unbound == -1

RECURSIVE SetToSortedSeq(_)
SetToSortedSeq(S) ==
    IF S = {} THEN <<>>
    ELSE LET m == CHOOSE x \in S : \A y \in S : x <= y
         IN  <<m>> \o SetToSortedSeq(S \ {m})

----------------------------------------------------------------------------
(* get_nodes, get_adj_matrix *)

\* line 50: list(adj_list.keys())[0] of an empty dict
get_nodes_raises(al) == IF Len(al) = 0 THEN "IndexError" ELSE "none"

\* lines 48-51.  list(set) of small non-negative ints iterates in ascending
\* order in CPython; the identifiers of the model are below 8.
get_nodes(al) ==
    LET node_list == UNION {{al[e].val[k] : k \in 1..Len(al[e].val)} : e \in 1..Len(al)}
                     \cup {al[1].key}
        s == SetToSortedSeq(node_list)
    IN  [k \in 0..Len(s)-1 |-> s[k+1]]

\* line 71: codes = dict(zip(nodes, range(n))), applied to a known vertex
codes(ns, v) == CHOOSE k \in DOMAIN ns : ns[k] = v

\* lines 74-75: codes[key] of a key that get_nodes left out
get_adj_matrix_raises(al) ==
    IF get_nodes_raises(al) # "none" THEN get_nodes_raises(al)
    ELSE LET ns == get_nodes(al)
             known == {ns[k] : k \in DOMAIN ns}
         IN  IF \E e \in 1..Len(al) : Len(al[e].val) > 0 /\ al[e].key \notin known
             THEN "KeyError"
             ELSE "none"

\* lines 68-76, when nothing is raised
get_adj_matrix(al) ==
    LET ns == get_nodes(al)
        listed(a, b) == \E e \in 1..Len(al) : \E k \in 1..Len(al[e].val) :
                           codes(ns, al[e].key) = a /\ codes(ns, al[e].val[k]) = b
    IN  [a \in DOMAIN ns |-> [b \in DOMAIN ns |->
            IF listed(a, b) \/ listed(b, a) THEN 1 ELSE 0]]

----------------------------------------------------------------------------
(* initialization *)

\* initialization without the rejection loop of lines 103-104
initialization_unchecked(M) == [DOMAIN M -> DOMAIN M]

\* lines 98-107: every individual the rejection sampling can return.  It
\* returns none when some row of the matrix holds no 1: the loop of lines
\* 103-104 then never ends.
initialization(M) ==
    {ind \in [DOMAIN M -> DOMAIN M] : \A v \in DOMAIN M : M[v][ind[v]] = 1}

\* the row for which the loop of lines 103-104 cannot end
initialization_stuck(M) == \E v \in DOMAIN M : \A c \in DOMAIN M : M[v][c] # 1

----------------------------------------------------------------------------
(* merge_subsets, generate_subsets *)

\* lines 126-133, from the k-th subset on; skip is used for membership only
RECURSIVE merge_from(_, _, _, _)
merge_from(subsets, k, result, skip) ==
    IF k > Len(subsets) THEN result
    ELSE LET sub == subsets[k]
         IN  IF sub \in skip THEN merge_from(subsets, k + 1, result, skip)
             ELSE LET hit == {j \in 1..Len(subsets) : sub \cap subsets[j] # {}}
                      new == sub \cup UNION {subsets[j] : j \in hit}
                  IN  merge_from(subsets, k + 1, Append(result, new),
                                 skip \cup {subsets[j] : j \in hit})

\* lines 125-134
merge_subsets(subsets) == merge_from(subsets, 1, <<>>, {})

\* lines 158-165: the loop, `cnt` being the code's local i
RECURSIVE generate_loop(_, _)
generate_loop(result, cnt) ==
    IF ~(cnt < Len(result)) THEN result
    ELSE LET candidate == merge_subsets(result)
         IN  IF candidate = result THEN result
             ELSE generate_loop(candidate, cnt + 1)

\* lines 156-165
generate_subsets(ind) ==
    generate_loop([x \in 1..Len0(ind) |-> {x - 1, ind[x - 1]}], 0)

----------------------------------------------------------------------------
(* community_score *)

RECURSIVE Pow(_, _)
Pow(b, e) == IF e = 0 THEN 1 ELSE b * Pow(b, e - 1)

\* b**e, the powers of 1 without the recursion
Power(b, e) == IF b = 1 THEN 1 ELSE Pow(b, e)

RECURSIVE Gcd(_, _)
Gcd(a, b) == IF b = 0 THEN a ELSE Gcd(b, a % b)

RECURSIVE LcmUpTo(_)
LcmUpTo(n) == IF n <= 1 THEN 1 ELSE LET l == LcmUpTo(n - 1) IN (l * n) \div Gcd(l, n)

RECURSIVE SumOver(_, _)
SumOver(S, f) ==
    IF S = {} THEN 0
    ELSE LET x == CHOOSE x \in S : TRUE IN f[x] + SumOver(S \ {x}, f)

RECURSIVE SumSeq(_)
SumSeq(s) == IF Len(s) = 0 THEN 0 ELSE Head(s) + SumSeq(Tail(s))

\* line 209 in double precision. UnderflowFrom[c][s], for a row of sum s in a
\* subset of c vertices with 0 < s < c <= 7, is the least order r at which the
\* term ((s/c)**r)/c is 0.0: the power, rounded to a double, divided by c is
\* at most 2^-1075. The term is 0.0 at every greater order as well. E.g.
\* 0.5**1073/2 = 2^-1074 is the smallest positive double and 0.5**1074/2 is 0.0.
UnderflowFrom ==
    << <<>>,
       <<1074>>,
       <<678, 1836>>,
       <<537, 1073, 2585>>,
       <<462, 812, 1456, 3333>>,
       <<415, 677, 1073, 1833, 4077>>,
       <<382, 594, 878, 1329, 2209, 4822>> >>

\* line 209: the term (row_mean**r)/len(sub) of a row of sum s in a subset
\* of c vertices is 0.0. A row mean of 0 gives 0.0**r, which is 0.0 for
\* r > 0 and 1.0 for r = 0; a row mean of 1 gives 1.0/c
term_is_zero(s, c, r) ==
    IF s = 0 THEN r > 0
    ELSE s < c /\ r >= UnderflowFrom[c][s]

\* an order above every entry of UnderflowFrom: from it on, every term of
\* line 209 is 0.0 or 1/len(sub)
UnderflowR == 5000

\* the factor that makes every community_score of n vertices and order r an integer
ScoreScale(n, r) == IF r >= UnderflowR THEN LcmUpTo(n) ELSE Pow(LcmUpTo(n), r + 1)

\* lines 202-211 with row_mean = sum(submatrix[row])//len(sub), an int whose
\* power is an int
subset_score_floordiv(sub, n, r, M) ==
    LET row_sum == [a \in sub |-> SumOver(sub, [b \in sub |-> M[a][b]])]
        volume  == SumOver(sub, row_sum)
        card    == Cardinality(sub)
        ones    == Cardinality({a \in sub : row_sum[a] = card})
        powers  == SumOver(sub, [a \in sub |->
                       Power((row_sum[a] \div card) * card, r)])
    IN  IF r >= UnderflowR
        THEN ones * volume * (LcmUpTo(n) \div card)
        ELSE IF powers = 0 THEN 0
        ELSE powers * volume * Power(LcmUpTo(n) \div card, r + 1)

\* lines 202-211 for one subset: M * volume, times ScoreScale(n, r). A term
\* that is 0.0 in double precision adds nothing to M; the others are carried
\* as the rationals they round
subset_score(sub, n, r, M) ==
    LET row_sum == [a \in sub |-> SumOver(sub, [b \in sub |-> M[a][b]])]
        volume  == SumOver(sub, row_sum)
        card    == Cardinality(sub)
        ones    == Cardinality({a \in sub : row_sum[a] = card})
        powers  == SumOver(sub, [a \in sub |->
                       IF term_is_zero(row_sum[a], card, r) THEN 0
                       ELSE Power(row_sum[a], r)])
    IN  IF r >= UnderflowR
        THEN ones * volume * (LcmUpTo(n) \div card)
        ELSE IF powers = 0 THEN 0
        ELSE powers * volume * Power(LcmUpTo(n) \div card, r + 1)

\* lines 199-212, times ScoreScale(len(individual), r)
community_score(ind, subsets, r, M) ==
    SumSeq([k \in 1..Len(subsets) |-> subset_score(subsets[k], Len0(ind), r, M)])

----------------------------------------------------------------------------
(* sorted(cs_values.items(), key=lambda item: -item[1]) *)

\* the position Python's stable sort gives index k
rank(cs, k) ==
    Cardinality({j \in DOMAIN cs : cs[j] > cs[k] \/ (cs[j] = cs[k] /\ j < k)})

\* the sort with key=lambda item: item[1]: ascending value, ties in index order
sorted_items_ascending(cs) ==
    [p \in 1..Len0(cs) |->
        LET k == CHOOSE k \in DOMAIN cs :
                    Cardinality({j \in DOMAIN cs :
                        cs[j] < cs[k] \/ (cs[j] = cs[k] /\ j < k)}) = p - 1
        IN  [k |-> k, v |-> cs[k]]]

\* lines 365, 366, 380: the items by descending value, ties in index order
sorted_items(cs) ==
    [p \in 1..Len0(cs) |->
        LET k == CHOOSE k \in DOMAIN cs : rank(cs, k) = p - 1
        IN  [k |-> k, v |-> cs[k]]]

----------------------------------------------------------------------------
(* roulette_selection *)

\* lines 237-245: what the call raises.  x/sum_cs divides by zero on the
\* first item of a pool of total weight zero; an empty pool leaves `chosen`
\* unbound.
roulette_selection_raises(elites) ==
    IF Len(elites) = 0 THEN "UnboundLocalError"
    ELSE IF SumSeq([k \in 1..Len(elites) |-> elites[k].v]) = 0 THEN "ZeroDivisionError"
    ELSE "none"

\* lines 236-245 when nothing is raised; prob stands for prob/ProbDen
roulette_selection(elites, prob) ==
    LET sum_cs == SumSeq([k \in 1..Len(elites) |-> elites[k].v])
        x(j)   == SumSeq([k \in 1..j |-> elites[k].v])
        first  == CHOOSE j \in 1..Len(elites) :
                     /\ prob * sum_cs < x(j) * ProbDen
                     /\ \A t \in 1..(j - 1) : ~(prob * sum_cs < x(t) * ProbDen)
    IN  elites[first].k

----------------------------------------------------------------------------
(* uniform_crossover *)

\* uniform_crossover with the test of line 271 inverted
uniform_crossover_inverted(par1, par2, crossover_rate, u, mask, pick) ==
    IF ~(u < crossover_rate)
    THEN [k \in DOMAIN par1 |-> IF mask[k] = 1 THEN par1[k] ELSE par2[k]]
    ELSE IF pick = 1 THEN par1 ELSE par2

\* lines 271-277.  u: the draw of line 271; mask: line 273; pick: the
\* parent random.choice takes on line 277.
uniform_crossover(par1, par2, crossover_rate, u, mask, pick) ==
    IF u < crossover_rate
    THEN [k \in DOMAIN par1 |-> IF mask[k] = 1 THEN par1[k] ELSE par2[k]]
    ELSE IF pick = 1 THEN par1 ELSE par2

----------------------------------------------------------------------------
(* mutation *)

\* line 307
mutation_fires(u, mutation_rate) == u < mutation_rate

\* line 313 with its test inverted: the vertices that are not neighbors
neighbor_inverted(M, v) == {k \in DOMAIN M[v] : M[v][k] # 1}

\* line 313
neighbor(M, v) == {k \in DOMAIN M[v] : M[v][k] = 1}

\* a pass whose assignment of line 316 is not under the test of line 314
mutation_pass_unguarded(ind, M, v, change) ==
    IF neighbor(M, v) = {} THEN ind
    ELSE [ind EXCEPT ![v] = IF change \in neighbor(M, v) THEN change
                              ELSE CHOOSE c \in neighbor(M, v) : TRUE]

\* lines 311-316: one pass of the loop, for the drawn vertex v (the code's
\* mut) and the drawn neighbor change
mutation_pass(ind, M, v, change) ==
    IF Cardinality(neighbor(M, v)) > 1 THEN [ind EXCEPT ![v] = change] ELSE ind

\* line 310: the loop goes on after a pass that drew v
mutation_again(M, v) == Cardinality(neighbor(M, v)) < 2

----------------------------------------------------------------------------
(* community_detection: the inputs of the model *)

Item(k, v) == [key |-> k, val |-> v]

\* a path 1 - 2 - 3 - 4, listed from both ends of every edge
PathGraph == <<Item(1, <<2>>), Item(2, <<1, 3>>), Item(3, <<2, 4>>), Item(4, <<3>>)>>
\* a star listed from its centre only: 6 and 7 appear as values only
StarGraph == <<Item(5, <<6, 7>>)>>
\* 3 appears as a key only, and is not the first key
KeyOnlyGraph == <<Item(1, <<2>>), Item(3, <<2>>)>>
\* 1 has no neighbor and is no one's neighbor
IsolatedGraph == <<Item(1, <<>>), Item(2, <<3>>), Item(3, <<2>>)>>
\* two separate edges: every vertex has exactly one neighbor
MatchingGraph == <<Item(1, <<2>>), Item(2, <<1>>), Item(3, <<4>>), Item(4, <<3>>)>>

RunGraphs == {PathGraph, StarGraph, KeyOnlyGraph, IsolatedGraph, MatchingGraph}

Rates == 0..RateDen

RunParams ==
    [population_count : 2..MaxPopulation,
     generation : 0..MaxGeneration,
     r : 1..MaxR,
     crossover_rate : Rates,
     mutation_rate : Rates,
     elite_reproduction : Rates]

\* line 356: int(math.floor(population_count*elite_reproduction))
elites_count == (params.population_count * params.elite_reproduction) \div RateDen

\* line 363
subsets == [k \in DOMAIN population |-> generate_subsets(population[k])]

\* lines 364, 378
cs_values ==
    [k \in DOMAIN population |->
        community_score(population[k], subsets[k], params.r, adj_matrix)]

\* line 365 with the slice taken from the other end of the sorted items
elites_lowest ==
    SubSeq(sorted_items(cs_values), Len0(population) - elites_count + 1, Len0(population))

\* line 365: the keys of the first elites_count sorted items
elites == SubSeq(sorted_items(cs_values), 1, elites_count)

\* line 366 without its slice: every sorted item
non_elites_unsliced == sorted_items(cs_values)

\* line 366: the sorted items after the first elites_count
non_elites == SubSeq(sorted_items(cs_values), elites_count + 1, Len0(population))

NoOutcome == [kind |-> "none"]
Raised(exc) == [kind |-> "raise", exc |-> exc]

CallIdle == fn = "none" /\ args = <<>> /\ ret = NoOutcome

\* parameters.py is not running
DriverIdle == data = <<>> /\ threads = <<>> /\ main = [pc |-> "idle"]

----------------------------------------------------------------------------
(* community_detection: the state machine *)

Init ==
    /\ adj_list \in RunGraphs
    /\ params \in RunParams
    /\ pc = "start"
    /\ nodes = <<>>
    /\ adj_matrix = <<>>
    /\ population = <<>>
    /\ new_population = <<>>
    /\ residual = <<>>
    /\ g = 0
    /\ i = Unbound
    /\ p1 = Unbound
    /\ p2 = Unbound
    /\ parent1 = <<>>
    /\ parent2 = <<>>
    /\ child = <<>>
    /\ individual = <<>>
    /\ rand = Unbound
    /\ mut = Unbound
    /\ outcome = NoOutcome
    /\ CallIdle
    /\ DriverIdle

\* lines 352-356
GraphModel ==
    /\ pc = "start"
    /\ IF get_adj_matrix_raises(adj_list) # "none"
       THEN /\ pc' = "raised"
            /\ outcome' = Raised(get_adj_matrix_raises(adj_list))
            /\ UNCHANGED <<nodes, adj_matrix>>
       ELSE /\ nodes' = get_nodes(adj_list)
            /\ adj_matrix' = get_adj_matrix(adj_list)
            /\ pc' = "init"
            /\ UNCHANGED outcome
    /\ UNCHANGED <<adj_list, params, population, new_population, residual, g, i, p1, p2,
                   parent1, parent2, child, individual, rand, mut, callVars, driverVars>>

\* line 357: one call of initialization that returns
InitIndividual ==
    /\ pc = "init"
    /\ Len0(population) < params.population_count
    /\ \E ind \in initialization(adj_matrix) :
          population' = Append0(population, ind)
    /\ pc' = IF Len0(population) + 1 = params.population_count THEN "loop" ELSE "init"
    /\ UNCHANGED <<adj_list, params, nodes, adj_matrix, new_population, residual, g, i,
                   p1, p2, parent1, parent2, child, individual, rand, mut, outcome,
                   callVars, driverVars>>

\* lines 102-104: a draw for a vertex whose row holds no 1 is rejected
InitRejected ==
    /\ pc = "init"
    /\ Len0(population) < params.population_count
    /\ initialization_stuck(adj_matrix)
    /\ rand' \in DOMAIN adj_matrix
    /\ UNCHANGED <<adj_list, params, pc, nodes, adj_matrix, population, new_population,
                   residual, g, i, p1, p2, parent1, parent2, child, individual, mut,
                   outcome, callVars, driverVars>>

\* lines 359-367: a generation starts
Evaluate ==
    /\ pc = "loop"
    /\ g < params.generation
    /\ new_population' = [k \in 0..(elites_count - 1) |-> population[elites[k + 1].k]]
    /\ residual' = non_elites
    /\ pc' = "offspring"
    /\ UNCHANGED <<adj_list, params, nodes, adj_matrix, population, g, i, p1, p2,
                   parent1, parent2, child, individual, rand, mut, outcome, callVars, driverVars>>

\* lines 368-371: the next offspring's two parents are selected
Selection ==
    /\ pc = "offspring"
    /\ Len0(new_population) < params.population_count
    /\ i' = Len0(new_population) - elites_count
    /\ IF roulette_selection_raises(residual) # "none"
       THEN /\ pc' = "raised"
            /\ outcome' = Raised(roulette_selection_raises(residual))
            /\ UNCHANGED <<p1, p2, parent1, parent2>>
       ELSE /\ \E prob1, prob2 \in 0..(ProbDen - 1) :
                  /\ p1' = roulette_selection(residual, prob1)
                  /\ p2' = roulette_selection(residual, prob2)
            /\ parent1' = population[p1']
            /\ parent2' = population[p2']
            /\ pc' = "crossover"
            /\ UNCHANGED outcome
    /\ UNCHANGED <<adj_list, params, nodes, adj_matrix, population, new_population,
                   residual, g, child, individual, rand, mut, callVars, driverVars>>

\* line 372
Crossover ==
    /\ pc = "crossover"
    /\ \E u \in 0..(RateDen - 1), pick \in {1, 2}, mask \in [DOMAIN parent1 -> {0, 1}] :
          child' = uniform_crossover(parent1, parent2, params.crossover_rate, u, mask, pick)
    /\ pc' = "mutation"
    /\ UNCHANGED <<adj_list, params, nodes, adj_matrix, population, new_population,
                   residual, g, i, p1, p2, parent1, parent2, individual, rand, mut, outcome,
                   callVars, driverVars>>

\* lines 307-309: mutation is entered
MutationEnter ==
    /\ pc = "mutation"
    /\ \E u \in 0..(RateDen - 1) :
          pc' = IF mutation_fires(u, params.mutation_rate) THEN "mutation_loop" ELSE "append"
    /\ individual' = child
    /\ UNCHANGED <<adj_list, params, nodes, adj_matrix, population, new_population,
                   residual, g, i, p1, p2, parent1, parent2, child, rand, mut, outcome,
                   callVars, driverVars>>

\* lines 310-316: one pass of the loop
MutationLoop ==
    /\ pc = "mutation_loop"
    /\ mut' \in DOMAIN individual
    /\ \E change \in (IF Cardinality(neighbor(adj_matrix, mut')) > 1
                      THEN neighbor(adj_matrix, mut') ELSE {Unbound}) :
          individual' = mutation_pass(individual, adj_matrix, mut', change)
    /\ pc' = IF mutation_again(adj_matrix, mut') THEN "mutation_loop" ELSE "append"
    /\ UNCHANGED <<adj_list, params, nodes, adj_matrix, population, new_population,
                   residual, g, i, p1, p2, parent1, parent2, child, rand, outcome,
                   callVars, driverVars>>

\* lines 373-374: mutation has returned
AppendChild ==
    /\ pc = "append"
    /\ new_population' = Append0(new_population, individual)
    /\ pc' = "offspring"
    /\ p1' = Unbound
    /\ p2' = Unbound
    /\ parent1' = <<>>
    /\ parent2' = <<>>
    /\ child' = <<>>
    /\ individual' = <<>>
    /\ mut' = Unbound
    /\ UNCHANGED <<adj_list, params, nodes, adj_matrix, population, residual, g, i, rand,
                   outcome, callVars, driverVars>>

\* line 375
NextGeneration ==
    /\ pc = "offspring"
    /\ Len0(new_population) = params.population_count
    /\ population' = new_population
    /\ new_population' = <<>>
    /\ residual' = <<>>
    /\ g' = g + 1
    /\ pc' = "loop"
    /\ UNCHANGED <<adj_list, params, nodes, adj_matrix, i, p1, p2, parent1, parent2,
                   child, individual, rand, mut, outcome, callVars, driverVars>>

\* line 380
best == sorted_items(cs_values)[1]

\* line 382, for the subsets of line 381: codes = dict(zip(range(n), nodes))
communities_of(node_subs) ==
    [k \in 1..Len(node_subs) |-> {nodes[node] : node \in node_subs[k]}]

\* lines 377-383
Finalize ==
    /\ pc = "loop"
    /\ g = params.generation
    /\ IF i = Unbound
       THEN /\ pc' = "raised"
            /\ outcome' = Raised("UnboundLocalError")
       ELSE /\ pc' = "done"
            /\ outcome' = [kind |-> "return",
                           communities |-> communities_of(generate_subsets(population[i])),
                           best_individual |-> <<best.k, best.v>>]
    /\ UNCHANGED <<adj_list, params, nodes, adj_matrix, population, new_population, residual, g, i,
                   p1, p2, parent1, parent2, child, individual, rand, mut, callVars, driverVars>>

Next ==
    \/ GraphModel
    \/ InitIndividual
    \/ InitRejected
    \/ Evaluate
    \/ Selection
    \/ Crossover
    \/ MutationEnter
    \/ MutationLoop
    \/ AppendChild
    \/ NextGeneration
    \/ Finalize

Spec == Init /\ [][Next]_vars

----------------------------------------------------------------------------
(* The functions on their own: generate_subsets, roulette_selection,       *)
(* uniform_crossover applied to arguments drawn from bounded sets          *)

Returned(v) == [kind |-> "return", val |-> v]

\* every list of n indices in 0..n-1
Genomes(n) == [0..(n - 1) -> 0..(n - 1)]

\* every dict of at most MaxPool items with keys in 0..MaxPool-1, in every order
Pools ==
    UNION {{[j \in 1..n |-> [k |-> ks[j], v |-> ws[j]]] :
               ks \in {q \in [1..n -> 0..(MaxPool - 1)] :
                          \A a, b \in 1..n : a # b => q[a] # q[b]},
               ws \in [1..n -> 0..MaxWeight]} : n \in 0..MaxPool}

FnCalls ==
    {[fn |-> "generate_subsets", args |-> [individual |-> ind]] :
        ind \in UNION {Genomes(n) : n \in 1..MaxN}}
    \cup
    {[fn |-> "roulette_selection", args |-> [elites |-> pool]] : pool \in Pools}
    \cup
    {[fn |-> "uniform_crossover",
      args |-> [parent1 |-> pp[1], parent2 |-> pp[2], crossover_rate |-> rate]] :
        pp \in UNION {Genomes(n) \X Genomes(n) : n \in 1..MaxM}, rate \in Rates}

RunIdle ==
    /\ adj_list = <<>>
    /\ params = <<>>
    /\ pc = "idle"
    /\ nodes = <<>>
    /\ adj_matrix = <<>>
    /\ population = <<>>
    /\ new_population = <<>>
    /\ residual = <<>>
    /\ g = 0
    /\ i = Unbound
    /\ p1 = Unbound
    /\ p2 = Unbound
    /\ parent1 = <<>>
    /\ parent2 = <<>>
    /\ child = <<>>
    /\ individual = <<>>
    /\ rand = Unbound
    /\ mut = Unbound
    /\ outcome = NoOutcome

FnInit ==
    /\ RunIdle
    /\ DriverIdle
    /\ \E c \in FnCalls : fn = c.fn /\ args = c.args
    /\ ret = NoOutcome

\* generate_subsets(individual)
CallGenerateSubsets ==
    /\ fn = "generate_subsets"
    /\ ret = NoOutcome
    /\ ret' = Returned(generate_subsets(args.individual))
    /\ UNCHANGED <<runVars, driverVars, fn, args>>

\* roulette_selection(elites)
CallRouletteSelection ==
    /\ fn = "roulette_selection"
    /\ ret = NoOutcome
    /\ IF roulette_selection_raises(args.elites) # "none"
       THEN ret' = Raised(roulette_selection_raises(args.elites))
       ELSE \E prob \in 0..(ProbDen - 1) :
               ret' = Returned(roulette_selection(args.elites, prob))
    /\ UNCHANGED <<runVars, driverVars, fn, args>>

\* uniform_crossover(parent1, parent2, crossover_rate)
CallUniformCrossover ==
    /\ fn = "uniform_crossover"
    /\ ret = NoOutcome
    /\ \E u \in 0..(RateDen - 1), pick \in {1, 2}, mask \in [DOMAIN args.parent1 -> {0, 1}] :
          ret' = Returned(uniform_crossover(args.parent1, args.parent2,
                                            args.crossover_rate, u, mask, pick))
    /\ UNCHANGED <<runVars, driverVars, fn, args>>

FnNext ==
    \/ CallGenerateSubsets
    \/ CallRouletteSelection
    \/ CallUniformCrossover

FnSpec == FnInit /\ [][FnNext]_vars

----------------------------------------------------------------------------
(* mutation on its own: any simple graph of at most MaxV vertices, any     *)
(* genome over its vertices, applied again and again to its own result     *)

\* the symmetric 0/1 matrices of n vertices with a zero diagonal
Matrices(n) ==
    {M \in [0..(n - 1) -> [0..(n - 1) -> {0, 1}]] :
        \A a, b \in 0..(n - 1) : M[a][b] = M[b][a] /\ M[a][a] = 0}

MutInit ==
    /\ adj_list = <<>>
    /\ \E n \in 1..MaxV :
          /\ adj_matrix \in Matrices(n)
          /\ child \in Genomes(n)
    /\ \E rate \in Rates : params = [mutation_rate |-> rate]
    /\ pc = "mutation"
    /\ nodes = <<>>
    /\ population = <<>>
    /\ new_population = <<>>
    /\ residual = <<>>
    /\ g = 0
    /\ i = Unbound
    /\ p1 = Unbound
    /\ p2 = Unbound
    /\ parent1 = <<>>
    /\ parent2 = <<>>
    /\ individual = <<>>
    /\ rand = Unbound
    /\ mut = Unbound
    /\ outcome = NoOutcome
    /\ CallIdle
    /\ DriverIdle

\* mutation is applied to the genome it returned
MutationAgain ==
    /\ pc = "append"
    /\ child' = individual
    /\ individual' = <<>>
    /\ mut' = Unbound
    /\ pc' = "mutation"
    /\ UNCHANGED <<adj_list, params, nodes, adj_matrix, population, new_population,
                   residual, g, i, p1, p2, parent1, parent2, rand, outcome, callVars, driverVars>>

MutNext ==
    \/ MutationEnter
    \/ MutationLoop
    \/ MutationAgain

MutSpec == MutInit /\ [][MutNext]_vars

\* the interpreter keeps running the loop of lines 310-316
FairMutSpec == MutSpec /\ WF_vars(MutationLoop)

----------------------------------------------------------------------------
(* community_detection on graphs of two connected components               *)

\* two disjoint triangles 0 - 1 - 2 and 3 - 4 - 5
TwoTriangles ==
    <<Item(0, <<1, 2>>), Item(1, <<0, 2>>), Item(2, <<0, 1>>),
      Item(3, <<4, 5>>), Item(4, <<3, 5>>), Item(5, <<3, 4>>)>>

\* a triangle 0 - 1 - 2 and a separate edge 3 - 4
TriangleAndEdge ==
    <<Item(0, <<1, 2>>), Item(1, <<0, 2>>), Item(2, <<0, 1>>),
      Item(3, <<4>>), Item(4, <<3>>)>>

TriGraphs == {TwoTriangles, TriangleAndEdge}

\* the runs explored on a graph: at least one generation, r = 1, a
\* crossover that always mixes, a mutation that fires or not, every elite
\* fraction, and a population of at most TriSize genes in all
TriParams(graph) ==
    {q \in [population_count : 1..MaxPopulation,
            generation : 1..MaxGeneration,
            r : {1},
            crossover_rate : {RateDen},
            mutation_rate : {1},
            elite_reproduction : Rates] :
        Len(graph) * q.population_count <= TriSize}

TriInit ==
    /\ adj_list \in TriGraphs
    /\ params \in TriParams(adj_list)
    /\ pc = "start"
    /\ nodes = <<>>
    /\ adj_matrix = <<>>
    /\ population = <<>>
    /\ new_population = <<>>
    /\ residual = <<>>
    /\ g = 0
    /\ i = Unbound
    /\ p1 = Unbound
    /\ p2 = Unbound
    /\ parent1 = <<>>
    /\ parent2 = <<>>
    /\ child = <<>>
    /\ individual = <<>>
    /\ rand = Unbound
    /\ mut = Unbound
    /\ outcome = NoOutcome
    /\ CallIdle
    /\ DriverIdle

\* every row of these graphs holds a 1: no draw of initialization is rejected for ever
TriNext ==
    \/ GraphModel
    \/ InitIndividual
    \/ Evaluate
    \/ Selection
    \/ Crossover
    \/ MutationEnter
    \/ MutationLoop
    \/ AppendChild
    \/ NextGeneration
    \/ Finalize

TriSpec == TriInit /\ [][TriNext]_vars

----------------------------------------------------------------------------
(* One evaluation and selection (lines 363-371) from a population of two    *)
(* copies of a valid genome, for every genome of at most MaxN genes on the  *)
(* graph of its own pairs, and the orders r of Orders                       *)

\* the graph whose edges are the pairs {x, ind[x]} of a genome
GeneMatrix(ind) ==
    [a \in DOMAIN ind |-> [b \in DOMAIN ind |->
        IF ind[a] = b \/ ind[b] = a THEN 1 ELSE 0]]

\* the orders r of the model: the small ones, the last order at which the
\* term of a row mean 1/2 in a subset of two is above 0.0, the first at which
\* it is 0.0, and one at which every term of a row mean below 1 is 0.0
Orders ==
    0..MaxR \cup {UnderflowFrom[2][1] - 1, UnderflowFrom[2][1], UnderflowR}

\* the scores of genome ind at order r fit the integers of the model: the
\* order is small or at least UnderflowR, or the genome has at most MaxMidN
\* genes and every term of line 209 is 0.0 or a power of 1 over a scale of 1
Carried(ind, r) ==
    IF r <= MaxR \/ r >= UnderflowR THEN TRUE
    ELSE IF Len0(ind) > MaxMidN THEN FALSE
    ELSE \A subs \in {generate_subsets(ind)} :
            \A k \in 1..Len(subs) : \A a \in subs[k] :
               LET s == SumOver(subs[k], [b \in subs[k] |-> GeneMatrix(ind)[a][b]])
                   c == Cardinality(subs[k])
               IN  term_is_zero(s, c, r) \/ (s = 1 /\ LcmUpTo(Len0(ind)) = c)

ScoreInit ==
    /\ adj_list = <<>>
    /\ nodes = <<>>
    /\ \E n \in 1..MaxN : \E ind \in Genomes(n) :
          /\ adj_matrix = GeneMatrix(ind)
          /\ \E r \in Orders :
                /\ Carried(ind, r)
                /\ params = [population_count |-> 2, generation |-> 1, r |-> r,
                             crossover_rate |-> 0, mutation_rate |-> 0,
                             elite_reproduction |-> 0]
          /\ population = [k \in 0..1 |-> ind]
    /\ pc = "loop"
    /\ new_population = <<>>
    /\ residual = <<>>
    /\ g = 0
    /\ i = Unbound
    /\ p1 = Unbound
    /\ p2 = Unbound
    /\ parent1 = <<>>
    /\ parent2 = <<>>
    /\ child = <<>>
    /\ individual = <<>>
    /\ rand = Unbound
    /\ mut = Unbound
    /\ outcome = NoOutcome
    /\ CallIdle
    /\ DriverIdle

ScoreNext ==
    \/ Evaluate
    \/ Selection

ScoreSpec == ScoreInit /\ [][ScoreNext]_vars

----------------------------------------------------------------------------
(* parameters.py: the driver that runs community_detection once per         *)
(* configuration tuple, on worker threads                                   *)

\* lines 66-69: the lists of the grid; population_list and mutation_rate
\* hold MaxGrid values each, generation_list and crossover_rate one
population_list == [k \in 0..(MaxGrid - 1) |-> 2 + k]
generation_list == [k \in 0..0 |-> 1]
crossover_rate == [k \in 0..0 |-> 1]
mutation_rate == [k \in 0..(MaxGrid - 1) |-> k]

\* line 70: list(itertools.product(...)), the last list varying fastest
sweep_params ==
    [k \in 0..(Len0(population_list) * Len0(mutation_rate) - 1) |->
        <<population_list[k \div Len0(mutation_rate)], generation_list[0],
          crossover_rate[0], mutation_rate[k % Len0(mutation_rate)]>>]

\* line 74: params[t::thread_count]
thread_data(t, thread_count) ==
    LET picked == {k \in DOMAIN sweep_params : k % thread_count = t}
    IN  [j \in 0..(Cardinality(picked) - 1) |-> sweep_params[t + j * thread_count]]

\* line 55: str(params) of a tuple of four numbers
str_params(tuple) ==
    <<"(", tuple[1], ", ", tuple[2], ", ", tuple[3], ", ", tuple[4], ")">>

\* the graphs of friends.json the driver is run on
SweepGraphs == {PathGraph, KeyOnlyGraph}

\* lines 52-54: what a call of community_detection on the path graph can return
SweepResults ==
    {[communities |-> <<{1, 2}, {3, 4}>>], [communities |-> <<{1, 2, 3, 4}>>]}

\* line 55: data[key] = result
dict_set(d, key, value) ==
    [k \in DOMAIN d \cup {key} |-> IF k = key THEN value ELSE d[k]]

DriverInit ==
    /\ adj_list \in SweepGraphs
    /\ params = <<>>
    /\ pc = "idle"
    /\ nodes = <<>>
    /\ adj_matrix = <<>>
    /\ population = <<>>
    /\ new_population = <<>>
    /\ residual = <<>>
    /\ g = 0
    /\ i = Unbound
    /\ p1 = Unbound
    /\ p2 = Unbound
    /\ parent1 = <<>>
    /\ parent2 = <<>>
    /\ child = <<>>
    /\ individual = <<>>
    /\ rand = Unbound
    /\ mut = Unbound
    /\ outcome = NoOutcome
    /\ CallIdle
    /\ data = <<>>
    /\ threads = <<>>
    /\ \E thread_count \in 1..MaxThreads :
          main = [pc |-> "start", thread_count |-> thread_count, joined |-> 0,
                  report |-> <<>>]

\* lines 76-79: main starts the next thread
MainStartThread ==
    /\ main.pc = "start"
    /\ threads' = Append0(threads, [pc |-> "call", k |-> 0, result |-> NoOutcome])
    /\ main' = [main EXCEPT !.pc = IF Len0(threads) + 1 = main.thread_count
                                   THEN "join" ELSE "start"]
    /\ UNCHANGED <<runVars, callVars, data>>

\* lines 50-54: thread num calls community_detection for its next tuple; an
\* exception the call raises ends the thread
ThreadCall(num) ==
    /\ num \in DOMAIN threads
    /\ threads[num].pc = "call"
    /\ threads[num].k < Len0(thread_data(num, main.thread_count))
    /\ IF get_adj_matrix_raises(adj_list) # "none"
       THEN threads' = [threads EXCEPT ![num].pc = "done",
                           ![num].result = Raised(get_adj_matrix_raises(adj_list))]
       ELSE \E result \in SweepResults :
               threads' = [threads EXCEPT ![num].pc = "store", ![num].result = result]
    /\ UNCHANGED <<runVars, callVars, data, main>>

\* line 55: thread num writes its result into the global dict
ThreadStore(num) ==
    /\ num \in DOMAIN threads
    /\ threads[num].pc = "store"
    /\ data' = dict_set(data,
                        str_params(thread_data(num, main.thread_count)[threads[num].k]),
                        threads[num].result)
    /\ threads' = [threads EXCEPT ![num].pc = "call", ![num].k = @ + 1,
                                  ![num].result = NoOutcome]
    /\ UNCHANGED <<runVars, callVars, main>>

\* line 50: thread num has no tuple left and returns
ThreadReturn(num) ==
    /\ num \in DOMAIN threads
    /\ threads[num].pc = "call"
    /\ threads[num].k = Len0(thread_data(num, main.thread_count))
    /\ threads' = [threads EXCEPT ![num].pc = "done"]
    /\ UNCHANGED <<runVars, callVars, data, main>>

\* lines 81-82: main joins the next thread, which has ended
MainJoin ==
    /\ main.pc = "join"
    /\ threads[main.joined].pc = "done"
    /\ main' = [main EXCEPT !.joined = @ + 1,
                            !.pc = IF main.joined + 1 = main.thread_count
                                   THEN "dump" ELSE "join"]
    /\ UNCHANGED <<runVars, callVars, data, threads>>

\* lines 84-87: main writes the report
MainDump ==
    /\ main.pc = "dump"
    /\ main' = [main EXCEPT !.report = data, !.pc = "done"]
    /\ UNCHANGED <<runVars, callVars, data, threads>>

DriverNext ==
    \/ MainStartThread
    \/ \E num \in 0..(MaxThreads - 1) : ThreadCall(num)
    \/ \E num \in 0..(MaxThreads - 1) : ThreadStore(num)
    \/ \E num \in 0..(MaxThreads - 1) : ThreadReturn(num)
    \/ MainJoin
    \/ MainDump

DriverSpec == DriverInit /\ [][DriverNext]_vars

----------------------------------------------------------------------------
(* The claims *)

\* the subsets of a decoded partition, whatever their order in the list
AsSet(seq) == {seq[k] : k \in 1..Len(seq)}

\* C1: the communities returned are the decoded partition of the genome of
\* maximal fitness in the final population (lowest index among ties),
\* mapped back to vertex identifiers, and the best value returned is that
\* genome's index and fitness.
C1_ReportsBestGenome ==
    (pc = "done") =>
        /\ AsSet(outcome.communities)
              = AsSet(communities_of(generate_subsets(population[best.k])))
        /\ outcome.best_individual = <<best.k, best.v>>
        /\ \A k \in DOMAIN cs_values :
              cs_values[k] < best.v \/ (cs_values[k] = best.v /\ best.k <= k)

\* a genome over the built graph's vertices whose every gene is a neighbor
ValidGenome(ind) ==
    /\ DOMAIN ind = DOMAIN adj_matrix
    /\ \A v \in DOMAIN ind : ind[v] \in DOMAIN adj_matrix /\ adj_matrix[v][ind[v]] = 1

\* C3: every genome of the population, of the population under
\* construction, and every result of crossover and of mutation has N genes
\* and satisfies M[i][gene[i]] = 1 for every i.
C3_GenomesValid ==
    /\ \A k \in DOMAIN population : ValidGenome(population[k])
    /\ \A k \in DOMAIN new_population : ValidGenome(new_population[k])
    /\ pc \in {"mutation", "mutation_loop", "append"} => ValidGenome(child)
    /\ pc \in {"mutation_loop", "append"} => ValidGenome(individual)

\* C3's case: a child mixed from two parents and then changed by mutation
C3_Witness ==
    /\ pc = "append"
    /\ child # parent1
    /\ child # parent2
    /\ individual # child

\* the vertices of an adjacency list: its keys and its values
Vertices(al) ==
    {al[e].key : e \in 1..Len(al)}
    \cup UNION {{al[e].val[k] : k \in 1..Len(al[e].val)} : e \in 1..Len(al)}

\* (u, v) is listed: v is in u's list
Listed(al, u, v) ==
    \E e \in 1..Len(al) : al[e].key = u /\ \E k \in 1..Len(al[e].val) : al[e].val[k] = v

\* C4: building the graph model succeeds for every adjacency list, indexes
\* every vertex that is a key or a value exactly once, and the matrix holds
\* 1 exactly for the pairs listed in either direction.
C4_GraphModelBuilt ==
    (pc # "start") =>
        /\ ~(pc = "raised" /\ outcome.exc \in {"KeyError", "IndexError"})
        /\ nodes # <<>> =>
              /\ {nodes[k] : k \in DOMAIN nodes} = Vertices(adj_list)
              /\ \A a, b \in DOMAIN nodes : a # b => nodes[a] # nodes[b]
              /\ DOMAIN nodes = 0..(Cardinality(Vertices(adj_list)) - 1)
              /\ \A a, b \in DOMAIN nodes :
                    adj_matrix[a][b] =
                        IF Listed(adj_list, nodes[a], nodes[b])
                           \/ Listed(adj_list, nodes[b], nodes[a])
                        THEN 1 ELSE 0

\* C5: with an all-zero row in the adjacency matrix the run ends in
\* IsolatedVertexError before initialization; it is never inside
\* initialization or any later step.
C5_IsolatedVertexReported ==
    initialization_stuck(adj_matrix) =>
        /\ pc = "raised"
        /\ outcome.exc = "IsolatedVertexError"

\* C6: with elite_count = 0 and with elite_count = population_count a run
\* of at least one generation on a well-formed graph raises nothing and
\* returns a result; with elite_count = population_count no offspring is
\* ever produced.
C6_EliteEdgeCasesSupported ==
    (/\ params.generation >= 1
     /\ elites_count \in {0, params.population_count}
     /\ pc \notin {"start", "init"}
     /\ adj_matrix # <<>>) =>
        /\ pc # "raised"
        /\ elites_count = params.population_count =>
              pc \notin {"crossover", "mutation", "mutation_loop", "append"}

\* C2: generate_subsets returns non-empty subsets that are pairwise
\* disjoint and whose union is {0, ..., N-1}.
C2_DecodeIsPartition ==
    (fn = "generate_subsets" /\ ret.kind = "return") =>
        /\ \A k \in 1..Len(ret.val) : ret.val[k] # {}
        /\ \A j, k \in 1..Len(ret.val) : j # k => ret.val[j] \cap ret.val[k] = {}
        /\ UNION AsSet(ret.val) = DOMAIN args.individual

\* the total weight of a pool
TotalWeight(pool) == SumSeq([k \in 1..Len(pool) |-> pool[k].v])

\* C7: roulette_selection of a non-empty pool of total weight zero does not
\* fail; it returns an index of the pool.
C7_ZeroWeightFallsBack ==
    (/\ fn = "roulette_selection"
     /\ Len(args.elites) > 0
     /\ TotalWeight(args.elites) = 0
     /\ ret # NoOutcome) =>
        /\ ret.kind = "return"
        /\ \E k \in 1..Len(args.elites) : ret.val = args.elites[k].k

\* every vertex of the graph has exactly one neighbor
AllDegreeOne == \A v \in DOMAIN adj_matrix : Cardinality(neighbor(adj_matrix, v)) = 1

\* C8: on a graph whose every vertex has exactly one neighbor, a mutation
\* that has fired gives up and returns the genome unchanged.
C8_MutationGivesUp ==
    (pc = "mutation_loop" /\ AllDegreeOne) ~> (pc = "append" /\ individual = child)

\* C9: the child has the parents' length and each of its genes is the gene
\* of one of the parents at that position; with crossover_rate = 0 the
\* child is the whole of parent1 or the whole of parent2.
C9_CrossoverGenes ==
    (fn = "uniform_crossover" /\ ret.kind = "return") =>
        /\ DOMAIN ret.val = DOMAIN args.parent1
        /\ \A k \in DOMAIN ret.val : ret.val[k] \in {args.parent1[k], args.parent2[k]}
        /\ args.crossover_rate = 0 => ret.val \in {args.parent1, args.parent2}
        /\ args.crossover_rate = RateDen =>
              \E mask \in [DOMAIN args.parent1 -> {0, 1}] :
                 \A k \in DOMAIN ret.val :
                    ret.val[k] = IF mask[k] = 1 THEN args.parent1[k] ELSE args.parent2[k]

\* C9's case: a child that is neither parent, its genes taken from both
C9_Witness ==
    /\ fn = "uniform_crossover"
    /\ ret.kind = "return"
    /\ ret.val # args.parent1
    /\ ret.val # args.parent2
    /\ \E k \in DOMAIN ret.val : ret.val[k] # args.parent2[k]

\* the positions in which mutation's result differs from its argument
Changed == {v \in DOMAIN child : individual[v] # child[v]}

\* C10: mutation's result differs from its argument in at most one
\* position, which has at least two neighbors and whose new gene is one of
\* them; the gene of a vertex with exactly one neighbor is unchanged; with
\* mutation_rate = 0 the genome is unchanged.
C10_MutationFrame ==
    (pc = "append") =>
        /\ DOMAIN individual = DOMAIN child
        /\ Cardinality(Changed) <= 1
        /\ \A v \in Changed :
              /\ Cardinality(neighbor(adj_matrix, v)) >= 2
              /\ individual[v] \in neighbor(adj_matrix, v)
        /\ \A v \in DOMAIN child :
              Cardinality(neighbor(adj_matrix, v)) = 1 => individual[v] = child[v]
        /\ params.mutation_rate = 0 => individual = child

\* C10's case: a mutation changed a gene on a graph that has a vertex with
\* exactly one neighbor
C10_Witness ==
    /\ pc = "append"
    /\ Changed # {}
    /\ \E v \in DOMAIN child : Cardinality(neighbor(adj_matrix, v)) = 1

\* the indices joined to S by the pairs {x, ind[x]}
RECURSIVE Closure(_, _)
Closure(S, ind) ==
    LET T == S \cup {ind[x] : x \in S} \cup {x \in DOMAIN ind : ind[x] \in S}
    IN  IF T = S THEN S ELSE Closure(T, ind)

\* the weakly-connected components of the functional graph x -> ind[x]
Components(ind) == {Closure({v}, ind) : v \in DOMAIN ind}

\* C11: the subsets generate_subsets returns are exactly the
\* weakly-connected components of the functional graph i -> gene[i], each
\* returned once: two indices share a returned subset if and only if a
\* chain of pairs {i, gene[i]} connects them.
C11_DecodeIsComponents ==
    (fn = "generate_subsets" /\ ret.kind = "return") =>
        /\ AsSet(ret.val) = Components(args.individual)
        /\ Len(ret.val) = Cardinality(Components(args.individual))

\* floor(population_count * elite_reproduction), stated without the code's division
EliteCount ==
    CHOOSE c \in 0..params.population_count :
        /\ c * RateDen <= params.population_count * params.elite_reproduction
        /\ (c + 1) * RateDen > params.population_count * params.elite_reproduction

\* inside a generation: after line 367 and before line 375
InGeneration == pc \in {"offspring", "crossover", "mutation", "mutation_loop", "append"}

\* C12: the population under construction starts with the EliteCount
\* genomes of highest fitness of the current population, copied unchanged,
\* and grows by offspring up to population_count genomes, never beyond;
\* before and after every generation the population holds exactly
\* population_count genomes.
C12_NextPopulation ==
    /\ InGeneration =>
          /\ EliteCount <= Len0(new_population)
          /\ Len0(new_population) <= params.population_count
          /\ pc # "offspring" => Len0(new_population) < params.population_count
          /\ LET cs == cs_values
             IN  \E f \in [0..(EliteCount - 1) -> DOMAIN population] :
                    /\ \A a, b \in DOMAIN f : a # b => f[a] # f[b]
                    /\ \A k \in DOMAIN f : new_population[k] = population[f[k]]
                    /\ \A k \in DOMAIN f :
                          \A j \in DOMAIN population \ {f[a] : a \in DOMAIN f} :
                             cs[j] <= cs[f[k]]
          /\ Len0(population) = params.population_count
    /\ pc \in {"loop", "done"} => Len0(population) = params.population_count

\* C12's case: in a second generation, a next population completed from one
\* elite and one offspring, the current genomes being of different fitness
C12_Witness ==
    /\ pc = "offspring"
    /\ g >= 1
    /\ EliteCount = 1
    /\ Len0(new_population) = params.population_count
    /\ cs_values[0] < cs_values[1]
    /\ new_population[0] = population[1]
    /\ new_population[1] # population[0]

\* the indices that outrank index k under the fitness values cs: a higher
\* fitness, or the same fitness and a lower index
Outrank(cs, k) == {j \in DOMAIN cs : cs[j] > cs[k] \/ (cs[j] = cs[k] /\ j < k)}

\* index k is not among the top EliteCount under the fitness values cs
NonElite(cs, k) == k \in DOMAIN cs /\ Cardinality(Outrank(cs, k)) >= EliteCount

\* C13: the two parents of every offspring are genomes of the current
\* population at indices of the non-elite pool; an elite index is never
\* selected.
C13_ParentsNonElite ==
    pc \in {"crossover", "mutation", "mutation_loop", "append"} =>
        LET cs == cs_values
        IN  /\ NonElite(cs, p1)
            /\ NonElite(cs, p2)
            /\ parent1 = population[p1]
            /\ parent2 = population[p2]

\* C13's case: parents selected in a generation that has an elite of
\* strictly higher fitness than the selected parent
C13_Witness ==
    /\ pc = "crossover"
    /\ EliteCount = 1
    /\ LET cs == cs_values
       IN  \E j \in Outrank(cs, p1) : cs[j] > cs[p1]

\* the vertices joined to S by edges of the matrix M
RECURSIVE GraphClosure(_, _)
GraphClosure(S, M) ==
    LET T == S \cup {b \in DOMAIN M : \E a \in S : M[a][b] = 1}
    IN  IF T = S THEN S ELSE GraphClosure(T, M)

\* the connected components of the input graph, as sets of vertex indices
GraphComponents == {GraphClosure({v}, adj_matrix) : v \in DOMAIN adj_matrix}

\* every genome the run holds: the population and the one under construction
HeldGenomes ==
    {population[k] : k \in DOMAIN population}
    \cup {new_population[k] : k \in DOMAIN new_population}

\* C14: every subset decoded from a genome of the run lies inside one
\* connected component of the input graph, and so does every reported
\* community; on the two disjoint triangles every genome, and the reported
\* result, decodes to exactly {{0,1,2},{3,4,5}}.
C14_DecodeWithinComponents ==
    /\ \A ind \in HeldGenomes :
          LET decoded == generate_subsets(ind)
          IN  /\ \A k \in 1..Len(decoded) : \E c \in GraphComponents : decoded[k] \subseteq c
              /\ adj_list = TwoTriangles =>
                    /\ AsSet(decoded) = {{0, 1, 2}, {3, 4, 5}}
                    /\ Len(decoded) = 2
    /\ pc = "done" =>
          /\ \A k \in 1..Len(outcome.communities) :
                \E c \in GraphComponents :
                   outcome.communities[k] \subseteq {nodes[v] : v \in c}
          /\ adj_list = TwoTriangles =>
                /\ AsSet(outcome.communities) = {{0, 1, 2}, {3, 4, 5}}
                /\ Len(outcome.communities) = 2

\* C14's case: a result reported on the two triangles after the last
\* generation, decoded from a genome in which 0 and 3 point away from 1 and 4
C14_Witness ==
    /\ pc = "done"
    /\ adj_list = TwoTriangles
    /\ g = MaxGeneration
    /\ population[i][0] = 2
    /\ population[i][3] = 5

\* C15: no worker is at its write into the shared dict while another
\* worker is still running, and the report main writes holds exactly one
\* result for every configuration tuple.
C15_PerTaskSlots ==
    /\ \A t, u \in DOMAIN threads :
          (t # u /\ threads[t].pc = "store") => threads[u].pc = "done"
    /\ main.pc = "done" =>
          /\ DOMAIN main.report = {str_params(sweep_params[k]) : k \in DOMAIN sweep_params}
          /\ \A key \in DOMAIN main.report : main.report[key] \in SweepResults

\* the maximal fitness among the genomes of a population
MaxFitness(pop) ==
    LET cs == [k \in DOMAIN pop |->
                  community_score(pop[k], generate_subsets(pop[k]), params.r, adj_matrix)]
    IN  CHOOSE m \in {cs[k] : k \in DOMAIN cs} : \A k \in DOMAIN cs : cs[k] <= m

\* C16: with at least one elite, the step that replaces the population by
\* the next one (line 375) does not lower the maximal fitness.
C16_BestNeverDecreases ==
    [][(pc = "offspring" /\ pc' = "loop" /\ EliteCount >= 1)
          => MaxFitness(population') >= MaxFitness(population)]_vars

\* C16's case: a generation with one elite has ended and its offspring is
\* of lower fitness than the elite that was kept
C16_Witness ==
    /\ pc = "loop"
    /\ g >= 1
    /\ EliteCount = 1
    /\ LET cs == cs_values IN cs[1] < cs[0]

\* line 364 has given every genome of the pool a fitness above zero, the
\* pool's total weight is above zero, and lines 369-370 have raised nothing
\* and selected indices of the pool
PoolPositive ==
    /\ pc = "offspring" =>
          /\ \A k \in 1..Len(residual) : residual[k].v > 0
          /\ Len(residual) > 0 => TotalWeight(residual) > 0
    /\ pc # "raised"
    /\ pc = "crossover" =>
          /\ \E k \in 1..Len(residual) : residual[k].k = p1
          /\ \E k \in 1..Len(residual) : residual[k].k = p2

\* C17 as stated: for every genome with M[i][gene[i]] = 1 for all i and
\* every r >= 0, community_score of the decoded subsets is above zero, so
\* the pool's total weight is above zero and roulette_selection returns an
\* index of the pool without dividing by zero.
C17_FitnessPositive == PoolPositive

\* line 209 rounds no term of a row that has an edge inside a decoded
\* subset of the population to 0.0
NoTermUnderflows ==
    \A subs \in {subsets} :
       \A k \in DOMAIN subs : \A j \in 1..Len(subs[k]) :
          \A a \in subs[k][j] :
             LET s == SumOver(subs[k][j], [b \in subs[k][j] |-> adj_matrix[a][b]])
             IN  s > 0 => ~term_is_zero(s, Cardinality(subs[k][j]), params.r)

\* C17 amended: the same for every r >= 0 at which no term
\* (row_mean**r)/len(sub) of line 209 with row_mean > 0 is 0.0 in double
\* precision.
C17_FitnessPositiveNoUnderflow == PoolPositive \/ ~NoTermUnderflows

\* C17's case: two parents selected from a pool of two genomes at the
\* greatest order at which the term of a row mean 1/2 is still above 0.0
C17_Witness ==
    /\ pc = "crossover"
    /\ params.r = UnderflowFrom[2][1] - 1
    /\ NoTermUnderflows
    /\ p1 # p2
    /\ \E k \in 1..Len(residual) : residual[k].k = p1 /\ residual[k].v > 0

=============================================================================
